---- MODULE Spec2Model ----
(***************************************************************************)
(* Model of the parity-prototype flash swap experiment.                    *)
(*   src/src/main.rs   Page, Slot, Status (the swap coordinator)            *)
(*   src/src/flash.rs  the Result-returning Page / Slot of the simulated    *)
(*                     flash, and its test test_flash_basics                *)
(* Indices are kept as in the source: slots and pages are numbered from 0,  *)
(* so Vec<Page> is a function over 0..len-1.  A payload (Vec<u8>) is a      *)
(* sequence of PAGE_SIZE bytes.  Option<T> is a record with a flag.         *)
(***************************************************************************)
EXTENDS Integers, Sequences, FiniteSets, TLC

(* ------------------------------- bounds -------------------------------- *)

\* Largest slot size (pages) given to Status::new.
MaxPages == 3

\* Largest slot size of a Status built from slots with chosen payloads.
MaxSkipPages == 2

\* Largest number of pages of the flash.rs Slot under test.
MaxFlashPages == 2

(* ------------------------------ constants ------------------------------ *)

PAGE_SIZE == 32

FLASH_PAGE_SIZE == 32

\* The erased value of a byte: vec![0xFFu8; PAGE_SIZE], fill(0xFF).
ERASED_BYTE == 255

(* ------------------------------- Option -------------------------------- *)

None == [some |-> FALSE]

Some(x) == [some |-> TRUE, val |-> x]

(* -------------------------------- bytes -------------------------------- *)

\* One bit of the u8 `^`: the bit of weight w is set when a and b differ in it.
XorBit(a, b, w) == (((a \div w) + (b \div w)) % 2) * w

\* u8 ^ u8 for every pair of bytes, bit by bit.
XorTable ==
    [a \in 0..255 |-> [b \in 0..255 |->
        XorBit(a, b, 1) + XorBit(a, b, 2) + XorBit(a, b, 4) + XorBit(a, b, 8)
        + XorBit(a, b, 16) + XorBit(a, b, 32) + XorBit(a, b, 64) + XorBit(a, b, 128)]]

\* u8 ^ u8, as used by `result[i] ^= bt`.
Xor(a, b) == XorTable[a][b]

\* vec![v; n]
Filled(v, n) == [k \in 1..n |-> v]

\* The decimal digits of n as ASCII, as "{}" formats a usize.
RECURSIVE Decimal(_)
Decimal(n) ==
    IF n < 10 THEN <<48 + n>> ELSE Decimal(n \div 10) \o <<48 + (n % 10)>>

\* The bytes of format!("Slot {}, page {}, data", slot, index).
Label(slot, index) ==
    <<83, 108, 111, 116, 32>> \o Decimal(slot)
    \o <<44, 32, 112, 97, 103, 101, 32>> \o Decimal(index)
    \o <<44, 32, 100, 97, 116, 97>>

\* write!(writer, ...) over a buffer of `size` bytes already filled with
\* 0xFF: the text lands at the front, the rest keeps the erased value.
\* (A text longer than the buffer makes the unwrap() panic; that needs a
\* page index of twelve digits and is outside every bound used here.)
WriteLabel(slot, index, size) ==
    LET text == Label(slot, index)
    IN  [k \in 1..size |-> IF k <= Len(text) THEN text[k] ELSE ERASED_BYTE]

\* buf.write_u32::<LittleEndian>(v as u32)
LE32(v) ==
    <<v % 256, (v \div 256) % 256, (v \div 65536) % 256, (v \div 16777216) % 256>>

\* Sha256 is kept symbolic: a digest stands for the exact byte input that
\* was hashed, so two digests are equal exactly when their inputs are.
Sha256(input) == [sha256 |-> input]

(* --------------------------- main.rs: Page ----------------------------- *)

PageLocation(slot, index) == [slot |-> slot, index |-> index]

\* Page::new(init)
Page_new(init) ==
    IF init.some
    THEN [payload |-> WriteLabel(init.val.slot, init.val.index, PAGE_SIZE),
          pstate |-> "Written"]
    ELSE [payload |-> Filled(ERASED_BYTE, PAGE_SIZE), pstate |-> "Erased"]

\* Page::check that takes a page whose write was cut short for a written one.
Page_check_partial_as_written(self, loc) ==
    LET expected == Page_new(Some(loc))
    IN  IF self.pstate \notin {expected.pstate, "PartiallyWritten"}
        THEN "Page state is incorrect"
        ELSE IF self.payload # expected.payload THEN "Page contents is incorrect"
        ELSE "ok"

\* Page::check that compares the contents only.
Page_check_contents_only(self, loc) ==
    LET expected == Page_new(Some(loc))
    IN  IF self.payload # expected.payload THEN "Page contents is incorrect"
        ELSE "ok"

\* Page::check(&self, loc): "ok", or the message of the panic.
Page_check(self, loc) ==
    LET expected == Page_new(Some(loc))
    IN  IF self.pstate # expected.pstate THEN "Page state is incorrect"
        ELSE IF self.payload # expected.payload THEN "Page contents is incorrect"
        ELSE "ok"

\* Page::digest that hashes the page index and the payload only.
Page_digest_index_only(self, loc) ==
    Sha256(LE32(loc.index) \o self.payload)

\* Page::digest(&self, loc)
Page_digest(self, loc) ==
    Sha256(LE32(loc.slot) \o LE32(loc.index) \o self.payload)

\* Page::read that refuses only an erased page.
Page_read_lenient(self, buffer) ==
    IF self.pstate # "Erased"
    THEN [buffer |-> self.payload, end |-> "ok"]
    ELSE [buffer |-> buffer, end |-> "Invalid state for read"]

\* Page::read(&self, buffer): the buffer afterwards and how the call ended
\* ("ok", or the message of the panic).
Page_read(self, buffer) ==
    IF self.pstate = "Written"
    THEN [buffer |-> self.payload, end |-> "ok"]
    ELSE [buffer |-> buffer, end |-> "Invalid state for read"]

\* Page::read_whatever(&self, buffer)
Page_read_whatever(self, buffer) == [buffer |-> self.payload, end |-> "ok"]

\* Page::erase that fills the contents and leaves the state.
Page_erase_contents_only(self) ==
    [self EXCEPT !.payload = Filled(ERASED_BYTE, Len(self.payload))]

\* Page::erase that sets the state and leaves the data.
Page_erase_state_only(self) == [self EXCEPT !.pstate = "Erased"]

\* Page::erase(&mut self): the page afterwards.
Page_erase(self) ==
    [payload |-> Filled(ERASED_BYTE, Len(self.payload)), pstate |-> "Erased"]

\* Page::partial_erase that also wipes the data, as erase does.
Page_partial_erase_wipes(self) ==
    [payload |-> Filled(ERASED_BYTE, Len(self.payload)), pstate |-> "PartiallyErased"]

\* Page::partial_erase(&mut self)
Page_partial_erase(self) == [self EXCEPT !.pstate = "PartiallyErased"]

\* Page::write that marks the page Written without copying the buffer.
Page_write_nocopy(self, buffer) ==
    IF self.pstate = "Erased"
    THEN [page |-> [self EXCEPT !.pstate = "Written"], end |-> "ok"]
    ELSE [page |-> self, end |-> "Attempt to write to unerased flash page"]

\* Page::write(&mut self, buffer): the page afterwards and how the call ended.
Page_write(self, buffer) ==
    IF self.pstate = "Erased"
    THEN [page |-> [payload |-> buffer, pstate |-> "Written"], end |-> "ok"]
    ELSE [page |-> self, end |-> "Attempt to write to unerased flash page"]

\* Page::partial_write that leaves the state write() set.
Page_partial_write_unmarked(self, buffer) == Page_write(self, buffer)

\* Page::partial_write(&mut self, buffer): write, then the state is marked
\* unfinished; a panic of write leaves the page as it was.
Page_partial_write(self, buffer) ==
    LET w == Page_write(self, buffer)
    IN  IF w.end = "ok"
        THEN [page |-> [w.page EXCEPT !.pstate = "PartiallyWritten"], end |-> "ok"]
        ELSE w

(* --------------------------- main.rs: Slot ----------------------------- *)

\* self.data.len()
PageCount(slot) == Cardinality(DOMAIN slot.data)

\* Slot::new(slot, pages)
Slot_new(slot, pages) ==
    [data |-> [i \in 0..(pages - 1) |-> Page_new(Some(PageLocation(slot, i)))],
     index |-> slot]

\* Slot::compute_root(&self): the hash state is updated with each page's
\* digest in index order.
Slot_compute_root(self) ==
    Sha256([k \in 1..PageCount(self) |->
              Page_digest(self.data[k - 1], PageLocation(self.index, k - 1))])

\* Byte i of compute_parity's result after pages 0..n-1: it starts as 0 and
\* each page does result[i] ^= bt.
RECURSIVE ParityByte(_, _, _)
ParityByte(self, n, i) ==
    IF n = 0 THEN 0
    ELSE Xor(ParityByte(self, n - 1, i), self.data[n - 1].payload[i])

\* Slot::compute_parity whose result starts as vec![0xFF; PAGE_SIZE].
Slot_compute_parity_from_erased(self) ==
    [i \in 1..PAGE_SIZE |-> Xor(ERASED_BYTE, ParityByte(self, PageCount(self), i))]

\* Slot::compute_parity(&self)
Slot_compute_parity(self) ==
    [i \in 1..PAGE_SIZE |-> ParityByte(self, PageCount(self), i)]

(* --------------------------- flash.rs: Page ---------------------------- *)

\* Result<()>: Ok(()) and Err(anyhow!(...)); the message is kept as the
\* text and the values formatted into it.
Ok == [ok |-> TRUE]

Err(msg) == [ok |-> FALSE, msg |-> msg]

\* flash.rs Page::new that marks the new page Erased.
flash_Page_new_erased ==
    [payload |-> Filled(ERASED_BYTE, FLASH_PAGE_SIZE), pstate |-> "Erased"]

\* flash.rs Page::new()
flash_Page_new ==
    [payload |-> Filled(ERASED_BYTE, FLASH_PAGE_SIZE), pstate |-> "PartiallyErased"]

\* flash.rs Slot::new(pages)
flash_Slot_new(pages) == [data |-> [i \in 0..(pages - 1) |-> flash_Page_new]]

\* flash.rs Page::fill(buf, slot, index): the buffer afterwards.
flash_Page_fill(buffer, slot, index) == WriteLabel(slot, index, Len(buffer))

\* flash.rs Page::check(buf, slot, index)
flash_Page_check(buffer, slot, index) ==
    LET tmp == flash_Page_fill(Filled(ERASED_BYTE, FLASH_PAGE_SIZE), slot, index)
    IN  IF buffer = tmp THEN Ok ELSE Err(<<"Page mismatch">>)

\* flash.rs Page::read(&self, buffer)
flash_Page_read(self, buffer) ==
    IF self.pstate = "Written"
    THEN [buffer |-> self.payload, result |-> Ok]
    ELSE [buffer |-> buffer,
          result |-> Err(<<"Read from invalid state: ", self.pstate>>)]

\* flash.rs Page::read_whatever(&self, buffer)
flash_Page_read_whatever(self, buffer) == [buffer |-> self.payload, result |-> Ok]

\* flash.rs Page::erase(&mut self)
flash_Page_erase(self) ==
    [page |-> [payload |-> Filled(ERASED_BYTE, Len(self.payload)),
               pstate |-> "Erased"],
     result |-> Ok]

\* flash.rs Page::partial_erase(&mut self)
flash_Page_partial_erase(self) == [self EXCEPT !.pstate = "PartiallyErased"]

\* flash.rs Page::write that takes a partially erased page for an erased one.
flash_Page_write_lenient(self, buffer) ==
    IF self.pstate \in {"Erased", "PartiallyErased"}
    THEN [page |-> [payload |-> buffer, pstate |-> "Written"], result |-> Ok]
    ELSE [page |-> self,
          result |-> Err(<<"Attempt to write to unerased page ", self.pstate>>)]

\* flash.rs Page::write(&mut self, buffer)
flash_Page_write(self, buffer) ==
    IF self.pstate = "Erased"
    THEN [page |-> [payload |-> buffer, pstate |-> "Written"], result |-> Ok]
    ELSE [page |-> self,
          result |-> Err(<<"Attempt to write to unerased page ", self.pstate>>)]

(* -------------------------- main.rs: Status ---------------------------- *)

VARIABLES
    slots,      \* Status.slots: [Slot; 2]
    root,       \* Status.root
    parity,     \* Status.parity
    step,       \* Status.step
    stop,       \* Status.stop: Option<usize>
    resume,     \* Status.resume: Option<PageLocation>
    pc,         \* where the run is: "new", inside swap(), "returned", "panicked"
    sec,        \* the loop variable of swap()
    abuf,       \* swap()'s buffer for slot 0's page
    bbuf,       \* swap()'s buffer for slot 1's page
    panic,      \* the message of the panic that ended the run, or "none"
    checked,    \* how final_check() ended: "none" (not run), "ok", or its panic
    recovery,   \* how find_recovery() ended
    orig,       \* the two slots as they were when the Status was constructed
    page,       \* a main.rs Page probed one call at a time
    fl,         \* a flash.rs Slot probed one call at a time (the test's `fl`)
    buf,        \* the buffer handed to the probed calls (the test's `buf`)
    ret         \* the last probed call: which, on what state, how it ended

vars ==
    <<slots, root, parity, step, stop, resume, pc, sec, abuf, bbuf, panic,
      checked, recovery, orig, page, fl, buf, ret>>

probeVars == <<page, fl, buf, ret>>

\* Status::new taking the root of slot 0 and the parity of slot 1.
Status_from_crossed(slot0, slot1) ==
    [slots |-> [s \in 0..1 |-> IF s = 0 THEN slot0 ELSE slot1],
     root |-> Slot_compute_root(slot0),
     parity |-> Slot_compute_parity(slot1),
     step |-> 0,
     stop |-> None,
     resume |-> None]

\* A Status over two given slots: what Status::new computes once slot0 and
\* slot1 exist.
Status_from(slot0, slot1) ==
    [slots |-> [s \in 0..1 |-> IF s = 0 THEN slot0 ELSE slot1],
     root |-> Slot_compute_root(slot1),
     parity |-> Slot_compute_parity(slot0),
     step |-> 0,
     stop |-> None,
     resume |-> None]

\* Status::new(size)
Status_new(size) == Status_from(Slot_new(0, size), Slot_new(1, size))

\* Status::is_stop that lets one more step through.
Status_is_stop_late(stepNow, stopAt) ==
    IF stopAt.some THEN stepNow > stopAt.val + 1 ELSE FALSE

\* Status::is_stop comparing with >= instead of >.
Status_is_stop_ge(stepNow, stopAt) ==
    IF stopAt.some THEN stepNow >= stopAt.val ELSE FALSE

\* Status::is_stop(&self), of the fields it reads.
Status_is_stop(stepNow, stopAt) ==
    IF stopAt.some THEN stepNow > stopAt.val ELSE FALSE

\* The checks of final_check from page `from` on: "ok", or the message of the
\* first check that panics.
RECURSIVE FinalCheckFrom(_, _)
FinalCheckFrom(ss, from) ==
    IF from >= PageCount(ss[0]) THEN "ok"
    ELSE LET c0 == Page_check(ss[0].data[from], PageLocation(1, from))
             c1 == Page_check(ss[1].data[from], PageLocation(0, from))
         IN  IF c0 # "ok" THEN c0
             ELSE IF c1 # "ok" THEN c1
             ELSE FinalCheckFrom(ss, from + 1)

\* Status::final_check(&self)
Status_final_check(ss) == FinalCheckFrom(ss, 0)

\* Status::find_recovery(&self): unimplemented!()
Status_find_recovery(ss, rootNow, parityNow) ==
    [ran |-> TRUE, end |-> "not implemented"]

\* self.slots[s].data[i] = p
SetPage(s, i, p) == [slots EXCEPT ![s].data[i] = p]

\* The stop thresholds tried for slots of `size` pages: none, each of the
\* 4 * size sub-steps, and one past the last sub-step.
Stops(size) == {None} \cup {Some(k) : k \in 0..(4 * size)}

\* The probe is not part of a Status run.
ProbeIdle == page = None /\ fl = None /\ buf = <<>> /\ ret = [op |-> "none"]

\* The state a Status run starts in, for a constructed Status and a stop.
StartFrom(st, stopAt) ==
    /\ slots = st.slots
    /\ root = st.root
    /\ parity = st.parity
    /\ step = st.step
    /\ stop = stopAt
    /\ resume = st.resume
    /\ pc = "new"
    /\ sec = 0
    /\ abuf = <<>>
    /\ bbuf = <<>>
    /\ panic = "none"
    /\ checked = "none"
    /\ recovery = [ran |-> FALSE]
    /\ orig = st.slots
    /\ ProbeIdle

\* main(): Status::new(size), with the stop threshold of the run.
Init ==
    \E size \in 0..MaxPages :
        \E stopAt \in Stops(size) : StartFrom(Status_new(size), stopAt)

\* swap() whose assertion lets a shorter slot 0 pass.
SwapStart_le ==
    /\ pc = "new"
    /\ IF PageCount(slots[0]) > PageCount(slots[1])
       THEN /\ pc' = "panicked"
            /\ panic' = "assertion failed: left == right"
            /\ UNCHANGED <<abuf, bbuf, sec>>
       ELSE /\ pc' = "loop"
            /\ abuf' = Filled(0, PAGE_SIZE)
            /\ bbuf' = Filled(0, PAGE_SIZE)
            /\ sec' = 0
            /\ UNCHANGED panic
    /\ UNCHANGED <<slots, root, parity, step, stop, resume, checked, recovery, orig>>
    /\ UNCHANGED probeVars

\* swap(): the size assertion and the two buffers.
SwapStart ==
    /\ pc = "new"
    /\ IF PageCount(slots[0]) # PageCount(slots[1])
       THEN /\ pc' = "panicked"
            /\ panic' = "assertion failed: left == right"
            /\ UNCHANGED <<abuf, bbuf, sec>>
       ELSE /\ pc' = "loop"
            /\ abuf' = Filled(0, PAGE_SIZE)
            /\ bbuf' = Filled(0, PAGE_SIZE)
            /\ sec' = 0
            /\ UNCHANGED panic
    /\ UNCHANGED <<slots, root, parity, step, stop, resume, checked, recovery, orig>>
    /\ UNCHANGED probeVars

\* swap(): the loop test and the two reads that open a page exchange.
SwapRead ==
    /\ pc = "loop"
    /\ IF sec >= PageCount(slots[0])
       THEN /\ pc' = "returned"
            /\ UNCHANGED <<abuf, bbuf, panic>>
       ELSE LET ra == Page_read(slots[0].data[sec], abuf)
                rb == Page_read(slots[1].data[sec], bbuf)
            IN  /\ abuf' = ra.buffer
                /\ bbuf' = IF ra.end = "ok" THEN rb.buffer ELSE bbuf
                /\ IF ra.end # "ok"
                   THEN pc' = "panicked" /\ panic' = ra.end
                   ELSE IF rb.end # "ok"
                   THEN pc' = "panicked" /\ panic' = rb.end
                   ELSE pc' = "erase0" /\ UNCHANGED panic
    /\ UNCHANGED <<slots, root, parity, step, stop, resume, sec, checked, recovery, orig>>
    /\ UNCHANGED probeVars

\* swap(): an erase sub-step of slot s ("step += 1", then the partial or the
\* full erase).
SwapErase(s, next) ==
    /\ step' = step + 1
    /\ IF Status_is_stop(step', stop)
       THEN /\ slots' = SetPage(s, sec, Page_partial_erase(slots[s].data[sec]))
            /\ resume' = Some(PageLocation(s, sec))
            /\ pc' = "returned"
       ELSE /\ slots' = SetPage(s, sec, Page_erase(slots[s].data[sec]))
            /\ pc' = next
            /\ UNCHANGED resume
    /\ UNCHANGED <<root, parity, stop, sec, abuf, bbuf, panic, checked, recovery, orig>>
    /\ UNCHANGED probeVars

\* swap(): a write sub-step of slot s with buffer b; after the full write
\* the run goes on at `next`, with the loop variable at `nextSec`.
SwapWrite(s, b, next, nextSec) ==
    /\ step' = step + 1
    /\ LET halt == Status_is_stop(step', stop)
           w == IF halt THEN Page_partial_write(slots[s].data[sec], b)
                ELSE Page_write(slots[s].data[sec], b)
       IN  IF w.end # "ok"
           THEN /\ pc' = "panicked"
                /\ panic' = w.end
                /\ UNCHANGED <<slots, resume, sec>>
           ELSE /\ slots' = SetPage(s, sec, w.page)
                /\ UNCHANGED panic
                /\ IF halt
                   THEN /\ resume' = Some(PageLocation(s, sec))
                        /\ pc' = "returned"
                        /\ UNCHANGED sec
                   ELSE /\ pc' = next
                        /\ sec' = nextSec
                        /\ UNCHANGED resume
    /\ UNCHANGED <<root, parity, stop, abuf, bbuf, checked, recovery, orig>>
    /\ UNCHANGED probeVars

\* Sub-step 1: erase slot 0, page sec.
SwapErase0 == pc = "erase0" /\ SwapErase(0, "write0")

\* Sub-step 2 writing back what was read from slot 0.
SwapWrite0_abuf == pc = "write0" /\ SwapWrite(0, abuf, "erase1", sec)

\* Sub-step 2: write slot 0, page sec, with slot 1's content.
SwapWrite0 == pc = "write0" /\ SwapWrite(0, bbuf, "erase1", sec)

\* Sub-step 3: erase slot 1, page sec.
SwapErase1 == pc = "erase1" /\ SwapErase(1, "write1")

\* Sub-step 4 writing back what was read from slot 1.
SwapWrite1_bbuf == pc = "write1" /\ SwapWrite(1, bbuf, "loop", sec + 1)

\* Sub-step 4: write slot 1, page sec, with slot 0's content; next page.
SwapWrite1 == pc = "write1" /\ SwapWrite(1, abuf, "loop", sec + 1)

\* final_check(), once swap() has returned (as main() calls it).
FinalCheck ==
    /\ pc = "returned"
    /\ checked = "none"
    /\ checked' = Status_final_check(slots)
    /\ IF checked' = "ok"
       THEN UNCHANGED <<pc, panic>>
       ELSE pc' = "panicked" /\ panic' = checked'
    /\ UNCHANGED <<slots, root, parity, step, stop, resume, sec, abuf, bbuf, recovery, orig>>
    /\ UNCHANGED probeVars

\* find_recovery(), after swap() has returned.
FindRecovery ==
    /\ pc = "returned"
    /\ recovery' = Status_find_recovery(slots, root, parity)
    /\ IF recovery'.end = "ok"
       THEN UNCHANGED <<pc, panic>>
       ELSE pc' = "panicked" /\ panic' = recovery'.end
    /\ UNCHANGED <<slots, root, parity, step, stop, resume, sec, abuf, bbuf, checked, orig>>
    /\ UNCHANGED probeVars

Next ==
    \/ SwapStart
    \/ SwapRead
    \/ SwapErase0
    \/ SwapWrite0
    \/ SwapErase1
    \/ SwapWrite1
    \/ FinalCheck
    \/ FindRecovery

Spec == Init /\ [][Next]_vars

(* ------------------- a Status over chosen images ----------------------- *)

\* A fully written slot whose page i holds the image content labelled
\* (from[i], i): its own content, or the content of the other slot's page.
Slot_holding(slot, from) ==
    [data |-> [i \in DOMAIN from |->
                 [payload |-> WriteLabel(from[i], i, PAGE_SIZE),
                  pstate |-> "Written"]],
     index |-> slot]

\* A Status constructed over two fully written slots of equal size whose
\* pages may hold the same content at the same index, with a stop threshold.
SkipInit ==
    \E size \in 1..MaxSkipPages :
        \E stopAt \in Stops(size) :
            \E from0 \in [0..(size - 1) -> {0, 1}] :
                \E from1 \in [0..(size - 1) -> {0, 1}] :
                    StartFrom(Status_from(Slot_holding(0, from0),
                                          Slot_holding(1, from1)), stopAt)

SkipSpec == SkipInit /\ [][Next]_vars

(* ------------------- a Status over slots of any size ------------------- *)

\* A Status over two fully written slots whose page counts need not agree
\* (the configuration swap() asserts against), with a stop threshold.
SizeInit ==
    \E size0 \in 0..MaxPages :
        \E size1 \in 0..MaxPages :
            \E stopAt \in Stops(size0) :
                StartFrom(Status_from(Slot_new(0, size0), Slot_new(1, size1)), stopAt)

SizeSpec == SizeInit /\ [][Next]_vars

(* ---------------------- probing single page calls ---------------------- *)

\* No Status takes part in a probe.
StatusIdle ==
    /\ slots = <<>>
    /\ root = <<>>
    /\ parity = <<>>
    /\ step = 0
    /\ stop = None
    /\ resume = None
    /\ sec = 0
    /\ abuf = <<>>
    /\ bbuf = <<>>
    /\ panic = "none"
    /\ checked = "none"
    /\ recovery = [ran |-> FALSE]
    /\ orig = <<>>

\* The pages a main.rs probe starts from: Page::new(None), Page::new(Some(loc)).
ProbeInits == {None, Some(PageLocation(0, 0)), Some(PageLocation(1, 2))}

\* The locations whose pattern the flash.rs probe fills its buffer with
\* (the test uses slot 5, index 7).
FillLocs == {PageLocation(5, 7), PageLocation(0, 1)}

ProbeInit ==
    /\ StatusIdle
    /\ ret = [op |-> "none"]
    /\ \/ /\ pc = "main.rs"
          /\ \E init \in ProbeInits : page = Page_new(init)
          /\ fl = None
          /\ buf = Filled(0, PAGE_SIZE)
       \/ /\ pc = "flash.rs"
          /\ \E pages \in 1..MaxFlashPages : fl = flash_Slot_new(pages)
          /\ page = None
          /\ buf = Filled(0, FLASH_PAGE_SIZE)

\* How a main.rs call that may panic leaves the run.
EndOfCall(end) ==
    IF end = "ok" THEN UNCHANGED <<pc, panic>>
    ELSE pc' = "panicked" /\ panic' = end

probeFrame ==
    UNCHANGED <<slots, root, parity, step, stop, resume, sec, abuf, bbuf,
                checked, recovery, orig>>

\* page.read(&mut buf)
PageRead ==
    /\ pc = "main.rs"
    /\ LET r == Page_read(page, buf)
       IN  /\ buf' = r.buffer
           /\ ret' = [op |-> "read", was |-> page.pstate, end |-> r.end]
           /\ EndOfCall(r.end)
    /\ UNCHANGED <<page, fl>>
    /\ probeFrame

\* page.read_whatever(&mut buf)
PageReadWhatever ==
    /\ pc = "main.rs"
    /\ LET r == Page_read_whatever(page, buf)
       IN  /\ buf' = r.buffer
           /\ ret' = [op |-> "read_whatever", was |-> page.pstate, end |-> r.end]
           /\ EndOfCall(r.end)
    /\ UNCHANGED <<page, fl>>
    /\ probeFrame

\* page.erase()
PageErase ==
    /\ pc = "main.rs"
    /\ page' = Page_erase(page)
    /\ ret' = [op |-> "erase", was |-> page.pstate, end |-> "ok"]
    /\ UNCHANGED <<fl, buf, pc, panic>>
    /\ probeFrame

\* page.partial_erase()
PagePartialErase ==
    /\ pc = "main.rs"
    /\ page' = Page_partial_erase(page)
    /\ ret' = [op |-> "partial_erase", was |-> page.pstate, end |-> "ok"]
    /\ UNCHANGED <<fl, buf, pc, panic>>
    /\ probeFrame

\* page.write(&buf)
PageWrite ==
    /\ pc = "main.rs"
    /\ LET w == Page_write(page, buf)
       IN  /\ page' = w.page
           /\ ret' = [op |-> "write", was |-> page.pstate, end |-> w.end]
           /\ EndOfCall(w.end)
    /\ UNCHANGED <<fl, buf>>
    /\ probeFrame

\* page.partial_write(&buf)
PagePartialWrite ==
    /\ pc = "main.rs"
    /\ LET w == Page_partial_write(page, buf)
       IN  /\ page' = w.page
           /\ ret' = [op |-> "partial_write", was |-> page.pstate, end |-> w.end]
           /\ EndOfCall(w.end)
    /\ UNCHANGED <<fl, buf>>
    /\ probeFrame

\* fl.data[i] = p
SetFlashPage(i, p) == [fl EXCEPT !.data[i] = p]

\* fl.data[i].read(&mut buf)
FlashRead ==
    /\ pc = "flash.rs"
    /\ \E i \in DOMAIN fl.data :
         LET r == flash_Page_read(fl.data[i], buf)
         IN  /\ buf' = r.buffer
             /\ ret' = [op |-> "read", index |-> i, was |-> fl.data[i].pstate,
                        result |-> r.result]
    /\ UNCHANGED <<page, fl, pc, panic>>
    /\ probeFrame

\* fl.data[i].read_whatever(&mut buf)
FlashReadWhatever ==
    /\ pc = "flash.rs"
    /\ \E i \in DOMAIN fl.data :
         LET r == flash_Page_read_whatever(fl.data[i], buf)
         IN  /\ buf' = r.buffer
             /\ ret' = [op |-> "read_whatever", index |-> i,
                        was |-> fl.data[i].pstate, result |-> r.result]
    /\ UNCHANGED <<page, fl, pc, panic>>
    /\ probeFrame

\* fl.data[i].erase()
FlashErase ==
    /\ pc = "flash.rs"
    /\ \E i \in DOMAIN fl.data :
         LET e == flash_Page_erase(fl.data[i])
         IN  /\ fl' = SetFlashPage(i, e.page)
             /\ ret' = [op |-> "erase", index |-> i, was |-> fl.data[i].pstate,
                        result |-> e.result]
    /\ UNCHANGED <<page, buf, pc, panic>>
    /\ probeFrame

\* fl.data[i].partial_erase()
FlashPartialErase ==
    /\ pc = "flash.rs"
    /\ \E i \in DOMAIN fl.data :
         /\ fl' = SetFlashPage(i, flash_Page_partial_erase(fl.data[i]))
         /\ ret' = [op |-> "partial_erase", index |-> i,
                    was |-> fl.data[i].pstate, result |-> Ok]
    /\ UNCHANGED <<page, buf, pc, panic>>
    /\ probeFrame

\* fl.data[i].write(&buf)
FlashWrite ==
    /\ pc = "flash.rs"
    /\ \E i \in DOMAIN fl.data :
         LET w == flash_Page_write(fl.data[i], buf)
         IN  /\ fl' = SetFlashPage(i, w.page)
             /\ ret' = [op |-> "write", index |-> i, was |-> fl.data[i].pstate,
                        result |-> w.result]
    /\ UNCHANGED <<page, buf, pc, panic>>
    /\ probeFrame

\* Page::fill(&mut buf, slot, index)
FlashFill ==
    /\ pc = "flash.rs"
    /\ \E loc \in FillLocs : buf' = flash_Page_fill(buf, loc.slot, loc.index)
    /\ ret' = [op |-> "fill"]
    /\ UNCHANGED <<page, fl, pc, panic>>
    /\ probeFrame

\* buf.fill(0x00)
FlashZero ==
    /\ pc = "flash.rs"
    /\ buf' = Filled(0, Len(buf))
    /\ ret' = [op |-> "zero"]
    /\ UNCHANGED <<page, fl, pc, panic>>
    /\ probeFrame

\* Page::check(&buf, slot, index)
FlashCheck ==
    /\ pc = "flash.rs"
    /\ \E loc \in FillLocs :
         ret' = [op |-> "check", loc |-> loc,
                 result |-> flash_Page_check(buf, loc.slot, loc.index)]
    /\ UNCHANGED <<page, fl, buf, pc, panic>>
    /\ probeFrame

ProbeNext ==
    \/ PageRead
    \/ PageReadWhatever
    \/ PageErase
    \/ PagePartialErase
    \/ PageWrite
    \/ PagePartialWrite
    \/ FlashRead
    \/ FlashReadWhatever
    \/ FlashErase
    \/ FlashPartialErase
    \/ FlashWrite
    \/ FlashFill
    \/ FlashZero
    \/ FlashCheck

ProbeSpec == ProbeInit /\ [][ProbeNext]_vars

(* ============================== claims ================================= *)

\* The number of pages of each slot of the Status.
N == PageCount(slots[0])

\* The panics swap() can end in.
SwapPanics ==
    {"Invalid state for read", "Attempt to write to unerased flash page",
     "assertion failed: left == right"}

\* Page k of slot s is Written and holds what the other slot's page k held
\* at construction.
Exchanged(s, k) ==
    slots[s].data[k] = [payload |-> orig[1 - s].data[k].payload, pstate |-> "Written"]

\* Page k of slot s is as it was at construction.
Untouched(s, k) == slots[s].data[k] = orig[s].data[k]

\* swap() has halted early.
Halted == pc = "returned" /\ resume.some

\* C1. Swap completeness: with no stop threshold swap() does not panic, and
\* once it has returned it has taken all 4N sub-steps, resume is unset, every
\* page of each slot is Written with the other slot's original payload, and
\* final_check() succeeds.
C1_SwapCompleteness ==
    ~stop.some =>
        /\ panic \notin SwapPanics
        /\ pc = "returned" =>
             /\ step = 4 * N
             /\ resume = None
             /\ \A i \in 0..(N - 1) : Exchanged(0, i) /\ Exchanged(1, i)
             /\ Status_final_check(slots) = "ok"
             /\ checked \in {"none", "ok"}

C1_Witness ==
    /\ ~stop.some
    /\ pc = "returned"
    /\ N >= 2
    /\ checked = "ok"
    /\ slots[0].data[1].payload = WriteLabel(1, 1, PAGE_SIZE)

\* C2. Interruption determinism: with a stop threshold k < 4N swap() returns
\* halted, never panics and never completes; resume names page k div 4, in
\* slot 0 when sub-step k mod 4 is the erase or write of slot 0 and in slot 1
\* otherwise, and that page is the one left partially erased or written.
C2_InterruptionDeterminism ==
    (stop.some /\ stop.val < 4 * N) =>
        /\ panic \notin SwapPanics
        /\ pc = "returned" =>
             LET k == stop.val
                 j == k % 4
             IN  /\ resume = Some(PageLocation(IF j \in {0, 1} THEN 0 ELSE 1, k \div 4))
                 /\ resume.val.index = sec
                 /\ slots[resume.val.slot].data[sec].pstate =
                        (IF j \in {0, 2} THEN "PartiallyErased" ELSE "PartiallyWritten")

C2_Witness ==
    /\ pc = "returned"
    /\ stop = Some(6)
    /\ resume = Some(PageLocation(1, 1))
    /\ slots[1].data[1].pstate = "PartiallyErased"

\* C3. When swap() has halted at page sec: the pages after sec are as
\* constructed, the pages before sec are exchanged, and of page sec only the
\* sub-steps up to the interrupted one have acted (slot 1's page is untouched
\* while slot 0's is interrupted; slot 0's is exchanged while slot 1's is).
C3_HaltLeavesRestUntouched ==
    Halted =>
        LET i == resume.val.index
            a == slots[0].data[i]
            b == slots[1].data[i]
        IN  /\ i = sec
            /\ \A k \in 0..(N - 1) :
                 /\ k < i => Exchanged(0, k) /\ Exchanged(1, k)
                 /\ k > i => Untouched(0, k) /\ Untouched(1, k)
            /\ resume.val.slot = 0 =>
                 /\ Untouched(1, i)
                 /\ \/ a = [orig[0].data[i] EXCEPT !.pstate = "PartiallyErased"]
                    \/ a = [orig[1].data[i] EXCEPT !.pstate = "PartiallyWritten"]
            /\ resume.val.slot = 1 =>
                 /\ Exchanged(0, i)
                 /\ \/ b = [orig[1].data[i] EXCEPT !.pstate = "PartiallyErased"]
                    \/ b = [orig[0].data[i] EXCEPT !.pstate = "PartiallyWritten"]

C3_Witness ==
    /\ Halted
    /\ N = 3
    /\ resume = Some(PageLocation(0, 1))
    /\ slots[0].data[1].pstate = "PartiallyWritten"
    /\ Exchanged(0, 0)
    /\ Untouched(1, 2)

\* The probe is of the flash.rs pages (flash.rs never panics).
ProbingFlash == pc = "flash.rs"

\* The probe is of a main.rs page (a panic ends it).
ProbingMain == pc \in {"main.rs", "panicked"}

\* C4. Erase-before-write: a write to a page that is not Erased fails (an Err
\* naming the state in flash.rs, the unerased-page panic in main.rs) and
\* leaves the page's state as it was; a write to an Erased page succeeds,
\* stores the buffer as the payload and makes the page Written.
C4_EraseBeforeWrite ==
    /\ (ProbingFlash /\ ret.op = "write") =>
         IF ret.was = "Erased"
         THEN /\ ret.result = Ok
              /\ fl.data[ret.index] = [payload |-> buf, pstate |-> "Written"]
         ELSE /\ ret.result = Err(<<"Attempt to write to unerased page ", ret.was>>)
              /\ fl.data[ret.index].pstate = ret.was
    /\ (ProbingMain /\ ret.op = "write") =>
         IF ret.was = "Erased"
         THEN /\ ret.end = "ok"
              /\ pc = "main.rs"
              /\ page = [payload |-> buf, pstate |-> "Written"]
         ELSE /\ ret.end = "Attempt to write to unerased flash page"
              /\ panic = ret.end
              /\ pc = "panicked"
              /\ page.pstate = ret.was

C4_Witness ==
    /\ ProbingFlash
    /\ ret.op = "write"
    /\ ret.was = "PartiallyErased"
    /\ ~ret.result.ok
    /\ \E i \in DOMAIN fl.data : fl.data[i].pstate = "Written"

\* C5. Read gating: a read of a page that is not Written fails and leaves the
\* buffer alone; a read of a Written page succeeds and the buffer then holds
\* the page's payload; read_whatever succeeds in every state and the buffer
\* then holds the page's current bytes.
C5_ReadGating ==
    /\ (ProbingFlash /\ ret.op = "read") =>
         IF ret.was = "Written"
         THEN ret.result = Ok /\ buf = fl.data[ret.index].payload
         ELSE ret.result = Err(<<"Read from invalid state: ", ret.was>>)
    /\ (ProbingFlash /\ ret.op = "read_whatever") =>
         ret.result = Ok /\ buf = fl.data[ret.index].payload
    /\ (ProbingMain /\ ret.op = "read") =>
         IF ret.was = "Written"
         THEN ret.end = "ok" /\ pc = "main.rs" /\ buf = page.payload
         ELSE ret.end = "Invalid state for read" /\ pc = "panicked"
    /\ (ProbingMain /\ ret.op = "read_whatever") =>
         ret.end = "ok" /\ pc = "main.rs" /\ buf = page.payload

C5_Witness ==
    /\ ProbingMain
    /\ ret.op = "read"
    /\ ret.was = "PartiallyWritten"
    /\ ret.end = "Invalid state for read"
    /\ page.payload = WriteLabel(1, 2, PAGE_SIZE)

\* C6 (as claimed). After an interrupted swap find_recovery returns a resume
\* location, the one swap() recorded.
C6_RecoveryReturnsResume ==
    (recovery.ran /\ resume.some) =>
        (recovery.end = "ok" /\ recovery.val = resume.val)

\* Byte i of the XOR of the payloads of pages 0..n-1 of a slot, page k left
\* out.
RECURSIVE XorAllBut(_, _, _, _)
XorAllBut(slot, k, n, i) ==
    IF n = 0 THEN 0
    ELSE IF n - 1 = k THEN XorAllBut(slot, k, n - 1, i)
    ELSE Xor(XorAllBut(slot, k, n - 1, i), slot.data[n - 1].payload[i])

\* Page k rebuilt from the other pages of the slot and the parity block p.
Rebuilt(slot, k, p) ==
    [i \in 1..PAGE_SIZE |-> Xor(XorAllBut(slot, k, PageCount(slot), i), p[i])]

\* C7. Parity reconstruction: for each slot as it stands, and for slot 0 as
\* constructed with the stored parity, XOR-folding every page but page k and
\* XOR-ing with compute_parity() of the slot gives page k's payload.
C7_ParityReconstruction ==
    \A k \in 0..(N - 1) :
        /\ \A s \in 0..1 :
             Rebuilt(slots[s], k, Slot_compute_parity(slots[s])) = slots[s].data[k].payload
        /\ Rebuilt(orig[0], k, parity) = orig[0].data[k].payload

C7_Witness ==
    /\ N = 2
    /\ slots[0].data[0].pstate = "Written"
    /\ slots[0].data[1].pstate = "Erased"
    /\ slots[0].data[0].payload # orig[0].data[0].payload
    /\ Rebuilt(slots[0], 0, Slot_compute_parity(slots[0])) = orig[1].data[0].payload

\* C8 (as claimed). A read of a page that is not Written and a write to a
\* page that is not Erased never end the process, in flash.rs and in the
\* main.rs pages swap() works on alike.
C8_InvalidStateNeverAborts ==
    /\ (ret.op = "read" /\ ret.was # "Written") => pc # "panicked"
    /\ (ret.op = "write" /\ ret.was # "Erased") => pc # "panicked"

\* C9 (as claimed). When swap() has halted at a page whose two copies held
\* the same bytes at construction, the states and payloads of that page in
\* both slots are those of the page not swapped, or those of it swapped.
C9_IdenticalPageUnobservable ==
    (Halted /\ orig[0].data[resume.val.index].payload
                 = orig[1].data[resume.val.index].payload) =>
        LET i == resume.val.index
        IN  \/ Untouched(0, i) /\ Untouched(1, i)
            \/ Exchanged(0, i) /\ Exchanged(1, i)

\* Page k of slot s is Written and holds the fill of PageLocation{from, k}.
HoldsFill(s, k, from) ==
    /\ slots[s].data[k].pstate = "Written"
    /\ slots[s].data[k].payload = WriteLabel(from, k, PAGE_SIZE)

\* Every page of slot 0 holds slot 1's fill and every page of slot 1 slot 0's.
AllExchangedFills == \A k \in 0..(N - 1) : HoldsFill(0, k, 1) /\ HoldsFill(1, k, 0)

\* C10. final_check() succeeds exactly when every page of slot 0 is Written
\* with the fill of slot 1's location and every page of slot 1 is Written with
\* the fill of slot 0's location; when it has run, it has returned in the one
\* case and panicked in the other.
C10_FinalCheckExact ==
    /\ (Status_final_check(slots) = "ok") <=> AllExchangedFills
    /\ checked = "ok" => AllExchangedFills
    /\ checked \notin {"none", "ok"} =>
         /\ ~AllExchangedFills
         /\ pc = "panicked"
         /\ panic = checked
         /\ checked \in {"Page state is incorrect", "Page contents is incorrect"}

C10_Witness ==
    /\ checked = "Page contents is incorrect"
    /\ N = 2
    /\ HoldsFill(0, 0, 1) /\ HoldsFill(1, 0, 0) /\ HoldsFill(0, 1, 1)
    /\ slots[1].data[1].pstate = "Written"


\* C11. root and parity are commitments to the state before the swap: in
\* every state, whatever sub-steps swap() has taken (full or partial, run to
\* the end or halted) and whether or not final_check() has run, root is
\* compute_root() of slot 1 as constructed and parity is compute_parity() of
\* slot 0 as constructed; no step changes either.
C11_RootParityCommitments ==
    /\ [](/\ root = Slot_compute_root(orig[1])
          /\ parity = Slot_compute_parity(orig[0]))
    /\ [][root' = root /\ parity' = parity]_vars

C11_Witness ==
    /\ checked = "Page state is incorrect"
    /\ resume = Some(PageLocation(0, 2))
    /\ slots[0].data[2].pstate = "PartiallyWritten"
    /\ root # Slot_compute_root(slots[1])
    /\ parity # Slot_compute_parity(slots[0])


\* C12. erase is unconditional: whatever state the page was in, erase
\* succeeds and leaves the page Erased with every byte 0xFF; a read of the
\* page right after it fails and a read_whatever right after it returns all
\* 0xFF (main.rs page and flash.rs pages alike).
C12_EraseUnconditional ==
    /\ [](/\ (ProbingFlash /\ ret.op = "erase") =>
               /\ ret.result = Ok
               /\ fl.data[ret.index] =
                      [payload |-> Filled(ERASED_BYTE, FLASH_PAGE_SIZE), pstate |-> "Erased"]
          /\ (ProbingMain /\ ret.op = "erase") =>
               /\ ret.end = "ok"
               /\ pc = "main.rs"
               /\ page = [payload |-> Filled(ERASED_BYTE, PAGE_SIZE), pstate |-> "Erased"])
    /\ [][/\ (ProbingFlash /\ ret.op = "erase" /\ ret'.op = "read"
                 /\ ret'.index = ret.index) =>
               (~ret'.result.ok /\ buf' = buf)
          /\ (ProbingFlash /\ ret.op = "erase" /\ ret'.op = "read_whatever"
                 /\ ret'.index = ret.index) =>
               (ret'.result = Ok /\ buf' = Filled(ERASED_BYTE, FLASH_PAGE_SIZE))
          /\ (ProbingMain /\ ret.op = "erase" /\ ret'.op = "read") =>
               (ret'.end = "Invalid state for read" /\ pc' = "panicked")
          /\ (ProbingMain /\ ret.op = "erase" /\ ret'.op = "read_whatever") =>
               (ret'.end = "ok" /\ buf' = Filled(ERASED_BYTE, PAGE_SIZE))]_vars

C12_Witness ==
    /\ ProbingMain
    /\ ret.op = "erase"
    /\ ret.was = "PartiallyWritten"
    /\ page.pstate = "Erased"
    /\ buf = WriteLabel(0, 0, PAGE_SIZE)


\* C13. Every page of a freshly constructed flash.rs Slot is unusable until
\* erased: right after Slot::new every page is a new page; on a new page
\* read fails and write fails; a page becomes Written only from Erased, and
\* becomes Erased only by an erase of that page.
C13_FreshFlashUnusable ==
    /\ [](ProbingFlash =>
            /\ ret.op = "none" => \A i \in DOMAIN fl.data : fl.data[i] = flash_Page_new
            /\ \A i \in DOMAIN fl.data :
                 fl.data[i] = flash_Page_new =>
                    /\ ~flash_Page_read(fl.data[i], buf).result.ok
                    /\ ~flash_Page_write(fl.data[i], buf).result.ok
            /\ (ret.op = "write" /\ ret.result.ok) => ret.was = "Erased")
    /\ [][ProbingFlash =>
            \A i \in DOMAIN fl.data :
                /\ (fl'.data[i].pstate = "Written" /\ fl.data[i].pstate # "Written")
                      => fl.data[i].pstate = "Erased"
                /\ (fl'.data[i].pstate = "Erased" /\ fl.data[i].pstate # "Erased")
                      => (ret'.op = "erase" /\ ret'.index = i)]_vars

C13_Witness ==
    /\ ProbingFlash
    /\ ret.op = "write"
    /\ ret.index = 1
    /\ ret.result = Ok
    /\ fl.data[1].pstate = "Written"
    /\ fl.data[0] = flash_Page_new


\* C14. Size mismatch is rejected eagerly: when the two slots differ in page
\* count, swap() ends in its size assertion and goes no further; no page of
\* either slot has been read (the buffers are not even allocated), erased or
\* written, step is 0 and resume is unset.
C14_SizeMismatchRejected ==
    PageCount(slots[0]) # PageCount(slots[1]) =>
        /\ pc \in {"new", "panicked"}
        /\ pc = "panicked" => panic = "assertion failed: left == right"
        /\ slots = orig
        /\ abuf = <<>> /\ bbuf = <<>>
        /\ step = 0
        /\ resume = None
        /\ checked = "none"

C14_Witness ==
    /\ pc = "panicked"
    /\ panic = "assertion failed: left == right"
    /\ PageCount(slots[0]) = 2
    /\ PageCount(slots[1]) = 3
    /\ stop = Some(0)


\* Page indices at which the digest is compared: those of the slots, and
\* values around each byte boundary of the 32-bit word.
DigestIndices == (0..MaxPages) \cup {255, 256, 65535, 65536, 16777215, 16777216, 2147483647}

\* The value of the little-endian word at bytes at+1 .. at+4 of a sequence.
WordAt(bytes, at) ==
    bytes[at + 1] + 256 * bytes[at + 2] + 65536 * bytes[at + 3] + 16777216 * bytes[at + 4]

\* C15. Digest binding: for the payload of every page, the digest at a
\* location is taken over 8 + PAGE_SIZE bytes, the slot number as a 32-bit
\* little-endian word, the page index as a 32-bit little-endian word, then
\* the payload; the same payload gets unequal digests at {0,i} and {1,i},
\* and at {0,i} and {0,j} for i # j. The stored root is made of such digests
\* for slot 1.
C15_DigestBinding ==
    /\ \A s \in {0, 1} : \A k \in DOMAIN slots[s].data :
         LET p == slots[s].data[k]
         IN  \A i \in DigestIndices :
               /\ \A t \in {0, 1} :
                    LET input == Page_digest(p, PageLocation(t, i)).sha256
                    IN  /\ Len(input) = 8 + PAGE_SIZE
                        /\ WordAt(input, 0) = t
                        /\ WordAt(input, 4) = i
                        /\ \A b \in 1..Len(p.payload) : input[8 + b] = p.payload[b]
               /\ Page_digest(p, PageLocation(0, i)) # Page_digest(p, PageLocation(1, i))
               /\ \A j \in DigestIndices :
                    i # j => Page_digest(p, PageLocation(0, i)) # Page_digest(p, PageLocation(0, j))
    /\ Len(root.sha256) = PageCount(orig[1])
    /\ \A k \in DOMAIN orig[1].data :
         /\ WordAt(root.sha256[k + 1].sha256, 0) = 1
         /\ WordAt(root.sha256[k + 1].sha256, 4) = k

\* A finished swap: slot 0 page 1 holds the payload slot 1 page 1 started
\* with, and its digest there is not the one the root was built from.
C15_Witness ==
    /\ pc = "returned"
    /\ resume = None
    /\ N = MaxPages
    /\ slots[0].data[1].payload = orig[1].data[1].payload
    /\ Page_digest(slots[0].data[1], PageLocation(0, 1)) # root.sha256[2]
    /\ Page_digest(slots[0].data[1], PageLocation(1, 1)) = root.sha256[2]


\* The sub-step swap() is about to perform, if any: the slot it acts on and
\* whether it is an erase or a write.
AtSubStep == pc \in {"erase0", "write0", "erase1", "write1"}
SubStepSlot == IF pc \in {"erase0", "write0"} THEN 0 ELSE 1
SubStepIsErase == pc \in {"erase0", "erase1"}

\* The sub-steps done in full when the run stands at pc.
FullSubSteps ==
    4 * sec + (CASE pc = "write0" -> 1 [] pc = "erase1" -> 2 [] pc = "write1" -> 3
                 [] OTHER -> 0)

PartialPages ==
    {loc \in {0, 1} \X (0..(N - 1)) :
        slots[loc[1]].data[loc[2]].pstate \in {"PartiallyErased", "PartiallyWritten"}}

\* C16. Stop threshold semantics: step grows by exactly one at each sub-step
\* and never otherwise changes; while swap() runs, step counts sub-steps all
\* done in full; with stop = k < 4N the sub-step that takes step from k to
\* k+1 is done as its partial variant (partial_erase for an erase,
\* partial_write for a write) and swap() returns with step = k+1; with no
\* stop or stop >= 4N no partial variant is ever done, swap() returns with
\* step = 4N and resume unset.
C16_StopThreshold ==
    /\ [](/\ pc \in {"loop", "erase0", "write0", "erase1", "write1"} =>
               /\ step = FullSubSteps
               /\ stop.some => step <= stop.val
               /\ PartialPages = {}
               /\ resume = None
          /\ pc = "returned" =>
               IF stop.some /\ stop.val < 4 * N
               THEN /\ step = stop.val + 1
                    /\ resume.some
                    /\ Cardinality(PartialPages) = 1
               ELSE /\ step = 4 * N
                    /\ resume = None
                    /\ PartialPages = {})
    /\ [][/\ step' >= step
          /\ step' = IF AtSubStep THEN step + 1 ELSE step
          /\ AtSubStep =>
               LET s == SubStepSlot
                   target == slots[s].data[sec]
                   b == IF s = 0 THEN bbuf ELSE abuf
               IN  IF stop.some /\ step = stop.val
                   THEN /\ pc' = "returned"
                        /\ slots'[s].data[sec] =
                             IF SubStepIsErase THEN Page_partial_erase(target)
                             ELSE Page_partial_write(target, b).page
                        /\ slots'[s].data[sec].pstate =
                             IF SubStepIsErase THEN "PartiallyErased" ELSE "PartiallyWritten"
                   ELSE /\ pc' \in {"loop", "erase0", "write0", "erase1", "write1"}
                        /\ slots'[s].data[sec] =
                             IF SubStepIsErase THEN Page_erase(target)
                             ELSE Page_write(target, b).page
                        /\ slots'[s].data[sec].pstate =
                             IF SubStepIsErase THEN "Erased" ELSE "Written"]_vars

\* Stopped at k = 5 of 12: page 1 of slot 0 was erased in full as the fifth
\* sub-step and its write, the sixth, was the partial one.
C16_Witness ==
    /\ pc = "returned"
    /\ N = 3
    /\ stop = Some(5)
    /\ step = 6
    /\ resume = Some(PageLocation(0, 1))
    /\ slots[0].data[1].pstate = "PartiallyWritten"
    /\ slots[1].data[0].pstate = "Written"


\* C17. No page operation of swap() hits an invalid-state error, whatever the
\* stop threshold: swap() never ends in a panic of Page::read or Page::write,
\* the two reads that open the exchange of page sec find both pages Written,
\* and each write or partial_write (which goes through write) finds its
\* target Erased.
C17_NoInvalidState ==
    /\ panic \notin SwapPanics
    /\ pc = "loop" /\ sec < N =>
         /\ slots[0].data[sec].pstate = "Written"
         /\ slots[1].data[sec].pstate = "Written"
         /\ Page_read(slots[0].data[sec], abuf).end = "ok"
         /\ Page_read(slots[1].data[sec], bbuf).end = "ok"
    /\ pc = "write0" =>
         /\ slots[0].data[sec].pstate = "Erased"
         /\ Page_write(slots[0].data[sec], bbuf).end = "ok"
         /\ Page_partial_write(slots[0].data[sec], bbuf).end = "ok"
    /\ pc = "write1" =>
         /\ slots[1].data[sec].pstate = "Erased"
         /\ Page_write(slots[1].data[sec], abuf).end = "ok"
         /\ Page_partial_write(slots[1].data[sec], abuf).end = "ok"

\* The last write of the last page went through partial_write.
C17_Witness ==
    /\ pc = "returned"
    /\ N = MaxPages
    /\ stop = Some(4 * N - 1)
    /\ resume = Some(PageLocation(1, N - 1))
    /\ slots[1].data[N - 1] = [payload |-> orig[0].data[N - 1].payload,
                               pstate |-> "PartiallyWritten"]
    /\ panic \notin SwapPanics


\* The pages, as <<slot, index>>, that are in a state other than Written.
NotWrittenPages ==
    {loc \in {0, 1} \X (0..(N - 1)) : slots[loc[1]].data[loc[2]].pstate # "Written"}

\* C18. At every sub-step boundary of swap() at most one page across both
\* slots is in a state other than Written; when swap() has halted early
\* exactly one page is not Written, it is PartiallyErased or
\* PartiallyWritten, and it is the page resume names.
C18_AtMostOneNotWritten ==
    /\ Cardinality(NotWrittenPages) <= 1
    /\ Halted =>
         /\ NotWrittenPages = {<<resume.val.slot, resume.val.index>>}
         /\ slots[resume.val.slot].data[resume.val.index].pstate
              \in {"PartiallyErased", "PartiallyWritten"}

\* Halted in the erase of slot 1, page 1: that page alone is not Written.
C18_Witness ==
    /\ Halted
    /\ N = MaxPages
    /\ resume = Some(PageLocation(1, 1))
    /\ slots[1].data[1].pstate = "PartiallyErased"
    /\ NotWrittenPages = {<<1, 1>>}


\* Some page in state Written holds the payload slot s, page k had at
\* construction.
HeldWritten(s, k) ==
    \E t \in {0, 1} : \E i \in 0..(N - 1) :
        slots[t].data[i] = [payload |-> orig[s].data[k].payload, pstate |-> "Written"]

\* C19. Slot 1's original content is never absent from readable flash: at
\* every sub-step boundary and in every halted state, for each page index i
\* slot 1, page i is still as constructed (Written, original payload) unless
\* slot 0, page i is Written with that payload; and no step changes slot 1,
\* page i before slot 0, page i has been written in full with its content.
C19_Slot1AlwaysReadable ==
    /\ [](\A i \in 0..(N - 1) :
            /\ Untouched(1, i) \/ Exchanged(0, i)
            /\ HeldWritten(1, i)
            /\ i > sec => Untouched(1, i)
            /\ i < sec => Exchanged(0, i))
    /\ [][\A i \in 0..(N - 1) :
            slots'[1].data[i] # slots[1].data[i] => Exchanged(0, i)]_vars

\* Halted in the erase of slot 1, page 0, after slot 0, page 0 took over its
\* content.
C19_Witness ==
    /\ Halted
    /\ N = MaxPages
    /\ resume = Some(PageLocation(1, 0))
    /\ slots[1].data[0].pstate = "PartiallyErased"
    /\ ~Untouched(1, 0)
    /\ Exchanged(0, 0)


\* Byte i of the XOR of slot 1's pages below sec and slot 0's pages above
\* sec, among the pages 0..n-1.
RECURSIVE XorAround(_, _)
XorAround(n, i) ==
    IF n = 0 THEN 0
    ELSE IF n - 1 = sec THEN XorAround(n - 1, i)
    ELSE Xor(XorAround(n - 1, i),
             (IF n - 1 < sec THEN slots[1] ELSE slots[0]).data[n - 1].payload[i])

\* C20. Slot 0's original content stays recoverable through parity: once
\* swap() runs at page index sec, in every halted state too, slot 1's pages
\* below sec and slot 0's pages above sec are Written and hold slot 0's
\* original payloads, so only that of page sec may be held by no Written
\* page; and it equals the stored parity XOR-ed with those pages' payloads.
C20_Slot0RecoverableByParity ==
    pc # "new" =>
        /\ \A k \in 0..(N - 1) :
             /\ k < sec => Exchanged(1, k)
             /\ k > sec => Untouched(0, k) /\ orig[0].data[k].pstate = "Written"
             /\ k # sec => HeldWritten(0, k)
        /\ sec < N =>
             orig[0].data[sec].payload =
                 [i \in 1..PAGE_SIZE |-> Xor(parity[i], XorAround(N, i))]

\* Halted in the write of slot 0, page 1: no Written page holds what that
\* page started with.
C20_Witness ==
    /\ Halted
    /\ N = MaxPages
    /\ sec = 1
    /\ resume = Some(PageLocation(0, 1))
    /\ slots[0].data[1].pstate = "PartiallyWritten"
    /\ ~HeldWritten(0, 1)
    /\ orig[0].data[1].payload = [i \in 1..PAGE_SIZE |-> Xor(parity[i], XorAround(N, i))]


\* swap() returned with resume set, and final_check() may have run since.
HaltedThenChecked == resume.some /\ pc \in {"returned", "panicked"}

\* C21. final_check() fails after every swap that halted early: for each
\* stop threshold in 0..4N-1 swap() halts, and in every halted state
\* final_check() panics on the state of the page the halt left unfinished,
\* never passing; this includes stop = 4N-1, where every payload of both
\* slots is exchanged and only the last page of slot 1 is PartiallyWritten.
C21_FinalCheckFailsAfterHalt ==
    /\ pc = "returned" /\ stop.some /\ stop.val < 4 * N => resume.some
    /\ HaltedThenChecked =>
         /\ Status_final_check(slots) = "Page state is incorrect"
         /\ checked \in {"none", "Page state is incorrect"}
         /\ checked # "none" => pc = "panicked" /\ panic = checked
    /\ HaltedThenChecked /\ stop = Some(4 * N - 1) =>
         /\ \A k \in 0..(N - 1) :
              /\ Exchanged(0, k)
              /\ slots[1].data[k].payload = orig[0].data[k].payload
              /\ k < N - 1 => Exchanged(1, k)
         /\ slots[1].data[N - 1].pstate = "PartiallyWritten"

\* final_check() has panicked after the halt at stop = 4N-1.
C21_Witness ==
    /\ N = MaxPages
    /\ stop = Some(4 * N - 1)
    /\ resume = Some(PageLocation(1, N - 1))
    /\ pc = "panicked"
    /\ checked = "Page state is incorrect"
    /\ panic = "Page state is incorrect"
    /\ slots[1].data[N - 1].payload = orig[0].data[N - 1].payload
    /\ slots[1].data[N - 1].pstate = "PartiallyWritten"
    /\ \A k \in 0..(N - 1) : Exchanged(0, k)

====
